---- MODULE Spec2Model ----
(***************************************************************************)
(* The TeamTalk worker of teamtalk-reg-system-rs (src/tt/worker.rs): the   *)
(* loop run_tt_loop that owns the TeamTalk client, drains the command      *)
(* queue, polls client events, keeps the two correlation tables            *)
(* pending_cmds / pending_lists and sweeps completed list requests.        *)
(*                                                                         *)
(* The TeamTalk client (crate teamtalk) is the environment: it hands out   *)
(* command ids and produces events.  An Instant is kept as a clock: the    *)
(* time in milliseconds elapsed since it was taken, no longer told apart   *)
(* once it has reached LIST_GRACE.                                         *)
(***************************************************************************)
EXTENDS Integers, Sequences, FiniteSets, TLC

\* ---------------------------------------------------------------- bounds
MaxReq == 2          \* commands the callers send in one run
MaxItems == 2        \* UserAccount events held by the pending list requests
MaxRemovals == 2     \* UserAccountRemoved events carrying an account
MaxCreations == 2    \* UserAccountCreated events that spawn a task
MaxAdmins == 3       \* entries of config.admin_ids

\* ------------------------------------------------------ program constants
LIST_GRACE == 500    \* flush_completed_lists: Duration::from_millis(500)

TickMs == LIST_GRACE             \* granularity of the clocks: a stamp is
                                 \* younger than LIST_GRACE or it is not
Usernames == {"x", "y"}
CmdIds == 1..(MaxReq + 1)        \* command ids (one is never issued)
FailIds == {-1, 0}               \* non-positive ids a failed dispatch returns
Slots == 1..MaxReq               \* reply slots (oneshot channels), one per command

CommandKinds == {"CreateAccount", "CheckUserExists", "GetOnlineUsers",
                 "GetAllUsers", "DeleteUser"}

\* Option<Instant>: None is the empty sequence, Some(t) is <<t>>
None == <<>>
Some(t) == <<t>>

\* ------------------------------------------------- values sent on a slot
\* oneshot::Sender<Result<bool, String>>: Ok(b) / Err(msg)
Ok(b) == [variant |-> "Ok", flag |-> b, msg |-> "", list |-> <<>>]
Err(m) == [variant |-> "Err", flag |-> FALSE, msg |-> m, list |-> <<>>]
\* oneshot::Sender<bool>
BoolVal(b) == [variant |-> "Bool", flag |-> b, msg |-> "", list |-> <<>>]
\* oneshot::Sender<Vec<String>> (and Vec<OnlineUser>, by username)
ListVal(l) == [variant |-> "List", flag |-> FALSE, msg |-> "", list |-> l]

VARIABLES
    pc,             \* position of run_tt_loop
    is_logged_in,   \* run_tt_loop: let mut is_logged_in
    pending_cmds,   \* HashMap<i32, PendingCommand>
    pending_lists,  \* HashMap<i32, PendingListRequest>
    reconnect,      \* ReconnectHandler: "connected" / "disconnected"
    rx,             \* the mpsc command queue
    n_sent,         \* commands created by the callers so far
    senders_alive,  \* some Sender<TTWorkerCommand> still exists
    shutdown,       \* CancellationToken
    client,         \* state of the TeamTalk client
    next_id,        \* next command id the client issues
    n_replies,      \* slot -> number of values sent on it so far
    trace,          \* slot -> what the client sent to its pending list request
    last,           \* the last step of the worker: the values it sent on reply
                    \* slots and the client operations it invoked
    broadcast,      \* the ids of the pending commands for which
                    \* client.send_to_all was invoked
    pending_deletions,  \* Arc<Mutex<HashMap<String, AbortHandle>>>
    removal_tasks,      \* the tasks handle_user_account_removed spawned
    creation_tasks,     \* the tasks handle_user_account_created spawned
    registry,           \* the usernames telegram_registrations links
    fanout              \* a notification on its way to the admins

debVars == <<pending_deletions, removal_tasks, creation_tasks, registry, fanout>>

vars == <<pc, is_logged_in, pending_cmds, pending_lists, reconnect, rx, n_sent,
          senders_alive, shutdown, client, next_id, n_replies, trace, last, broadcast,
          debVars>>

workerVars == <<is_logged_in, pending_cmds, pending_lists, reconnect>>
callerVars == <<rx, n_sent, senders_alive>>
outVars == <<n_replies, trace, last, broadcast>>

\* ------------------------------------------------------------- helpers
Remove(map, k) == [x \in DOMAIN map \ {k} |-> map[x]]
Insert(map, k, v) == [x \in DOMAIN map \cup {k} |-> IF x = k THEN v ELSE map[x]]
EmptyMap == [x \in {} |-> 0]

Contains(seq, name) == \E i \in 1..Len(seq) : seq[i] = name

\* values sent on the reply slots in one step: slot -> sequence of values
NoSends == [s \in Slots |-> <<>>]
SendOn(sent, slot, v) == [sent EXCEPT ![slot] = Append(@, v)]
One(slot, v) == SendOn(NoSends, slot, v)

\* The commands announced to the server's users: send_to_all is invoked
\* right after create_user_account returned the id next_id (worker.rs 207-214).
\* The record of a command is dropped with the reply to its caller.
Announced(calls) ==
    IF Contains(calls, "send_to_all") THEN broadcast \cup {next_id} ELSE broadcast

\* a step of the worker: what it sent, which client operations it invoked
Step(sent, calls) ==
    /\ last' = [sent |-> sent, calls |-> calls]
    /\ n_replies' = [s \in Slots |-> n_replies[s] + Len(sent[s])]
    /\ broadcast' = {id \in Announced(calls) :
                         id \in DOMAIN pending_cmds =>
                             sent[pending_cmds[id].resp] = <<>>}

\* a step that handles no command and no event
Control(calls) ==
    /\ Step(NoSends, calls)
    /\ UNCHANGED trace

\* What the client sent to a list request: its UserAccount events (an event
\* is a stray when it carried the id of no list request), whether the
\* terminal success came, and the clock of the last event that came after it.
Blank == [items |-> <<>>, success |-> FALSE, late_clock |-> None]

\* the record is kept for pending requests only
Forget(tr, sent) == [s \in Slots |-> IF sent[s] # <<>> THEN Blank ELSE tr[s]]

\* ---- the lifecycle debouncer: what the spawned tasks are and have done
DebUsers == {"alice"}                \* acc.username of the lifecycle events
RemovalIds == 1..MaxRemovals         \* the tasks spawned at worker.rs 712
CreationIds == 1..MaxCreations       \* the tasks spawned at worker.rs 657

\* A removal task: the await it is suspended at, whether its sleep of 2 s is
\* over, what it has emitted so far, and whether a UserAccountCreated event
\* for its username came while its sleep was not over.
NoRemoval == [u |-> "", stage |-> "unspawned", elapsed |-> FALSE,
              emitted |-> <<>>, followed |-> FALSE]

\* A creation task: what it has emitted, and whether pending_deletions held
\* its username when its event was handled.
NoCreation == [u |-> "", stage |-> "unspawned", msg_key |-> "",
               pending_at_event |-> FALSE]

\* ---- the fan-out of one notification
\* for &aid in &admins_clone { let _ = bot_clone.send_message(..).await; }
AdminIds == {1, 2}
AdminLists == UNION {[1..n -> AdminIds] : n \in 0..MaxAdmins}
MsgKeys == {"tt-account-created", "tt-account-changed", "tt-account-removed",
            "tt-account-removed-banned", "tt-account-removed-no-link"}

\* no notification is on its way
NoFanout == [msg_key |-> "", admins |-> <<>>, next |-> 1, attempts |-> <<>>]

DebouncerInit ==
    /\ pending_deletions = EmptyMap
    /\ removal_tasks = [t \in RemovalIds |-> NoRemoval]
    /\ creation_tasks = [j \in CreationIds |-> NoCreation]

WorkerInit ==
    /\ is_logged_in = FALSE
    /\ pending_cmds = EmptyMap
    /\ pending_lists = EmptyMap
    /\ reconnect = "disconnected"
    /\ rx = <<>>
    /\ n_sent = 0
    /\ senders_alive = TRUE
    /\ shutdown = FALSE
    /\ client \in {"connecting", "closed"}
    /\ next_id = 1
    /\ n_replies = [s \in Slots |-> 0]
    /\ trace = [s \in Slots |-> Blank]
    /\ last = [sent |-> NoSends, calls |-> <<"connect">>]
    /\ broadcast = {}

Init ==
    /\ fanout = NoFanout
    /\ pc = "top"
    /\ WorkerInit
    /\ DebouncerInit
    /\ registry = {}

\* ----------------------------------------------------- command handlers
\* a slip: zero taken for a valid id
dispatch_ok_nonneg(cmd_id) == cmd_id >= 0

\* the id tests `if cmd_id > 0` of the four dispatching handlers
dispatch_ok(cmd_id) == cmd_id > 0

\* what client.create_user_account / delete_user_account /
\* list_user_accounts may return: a non-positive id or a fresh positive one
ClientIssues(cmd_id) ==
    /\ cmd_id \in FailIds \/ cmd_id = next_id
    /\ next_id' = IF cmd_id = next_id THEN next_id + 1 ELSE next_id

\* the ids an event may carry: those of the pending entries, and next_id for
\* every id that no entry has
EventIds == DOMAIN pending_cmds \cup DOMAIN pending_lists \cup {next_id}

OnlineUsers == <<"x">>           \* what client.get_server_users() returns

disconnected_reply(kind) ==
    CASE kind \in {"CreateAccount", "DeleteUser"} -> Err("Bot not connected to TeamTalk")
      [] kind = "CheckUserExists" -> BoolVal(FALSE)
      [] kind \in {"GetAllUsers", "GetOnlineUsers"} -> ListVal(<<>>)

handle_command_disconnected(cmd) ==
    /\ Step(One(cmd.resp, disconnected_reply(cmd.kind)), <<>>)
    /\ UNCHANGED <<pending_cmds, pending_lists, next_id>>

NewListRequest(kind, username, slot) ==
    [kind |-> kind, username |-> username, resp |-> slot,
     accumulated |-> <<>>, completed_at |-> None, mismatch_logged |-> FALSE]

\* ctx.broadcast_enabled is configuration the model does not fix: either
\* value is taken at each call
handle_create_account(cmd, cmd_id, broadcast_enabled) ==
    /\ ClientIssues(cmd_id)
    /\ IF dispatch_ok(cmd_id)
       THEN /\ pending_cmds' = Insert(pending_cmds, cmd_id, [resp |-> cmd.resp])
            /\ Step(NoSends, IF broadcast_enabled
                             THEN <<"create_user_account", "send_to_all">>
                             ELSE <<"create_user_account">>)
       ELSE /\ Step(One(cmd.resp, Err("Client error dispatching command")),
                    <<"create_user_account">>)
            /\ UNCHANGED pending_cmds
    /\ UNCHANGED pending_lists

handle_delete_user(cmd, cmd_id) ==
    /\ ClientIssues(cmd_id)
    /\ IF dispatch_ok(cmd_id)
       THEN /\ pending_cmds' = Insert(pending_cmds, cmd_id, [resp |-> cmd.resp])
            /\ Step(NoSends, <<"delete_user_account">>)
       ELSE /\ Step(One(cmd.resp, Err("Failed to dispatch command")),
                    <<"delete_user_account">>)
            /\ UNCHANGED pending_cmds
    /\ UNCHANGED pending_lists

handle_get_all_users(cmd, cmd_id) ==
    /\ ClientIssues(cmd_id)
    /\ IF dispatch_ok(cmd_id)
       THEN /\ pending_lists' = Insert(pending_lists, cmd_id,
                                       NewListRequest("AllUsers", "", cmd.resp))
            /\ Step(NoSends, <<"list_user_accounts">>)
       ELSE /\ Step(One(cmd.resp, ListVal(<<>>)), <<"list_user_accounts">>)
            /\ UNCHANGED pending_lists
    /\ UNCHANGED pending_cmds

handle_check_user_exists(cmd, cmd_id) ==
    /\ ClientIssues(cmd_id)
    /\ IF dispatch_ok(cmd_id)
       THEN /\ pending_lists' = Insert(pending_lists, cmd_id,
                                       NewListRequest("Exists", cmd.username, cmd.resp))
            /\ Step(NoSends, <<"list_user_accounts">>)
       ELSE /\ Step(One(cmd.resp, BoolVal(FALSE)), <<"list_user_accounts">>)
            /\ UNCHANGED pending_lists
    /\ UNCHANGED pending_cmds

handle_get_online_users(cmd) ==
    /\ Step(One(cmd.resp, ListVal(OnlineUsers)), <<"get_server_users">>)
    /\ UNCHANGED <<pending_cmds, pending_lists, next_id>>

handle_command_connected(cmd) ==
    CASE cmd.kind = "CreateAccount" ->
            \E cmd_id \in FailIds \cup CmdIds, broadcast_enabled \in BOOLEAN :
                handle_create_account(cmd, cmd_id, broadcast_enabled)
      [] cmd.kind = "DeleteUser" ->
            \E cmd_id \in FailIds \cup CmdIds : handle_delete_user(cmd, cmd_id)
      [] cmd.kind = "GetAllUsers" ->
            \E cmd_id \in FailIds \cup CmdIds : handle_get_all_users(cmd, cmd_id)
      [] cmd.kind = "CheckUserExists" ->
            \E cmd_id \in FailIds \cup CmdIds : handle_check_user_exists(cmd, cmd_id)
      [] cmd.kind = "GetOnlineUsers" -> handle_get_online_users(cmd)

\* a slip: the logged-in test lost
rejects_never(logged_in) == FALSE

\* the test `if !ctx.is_logged_in` of handle_command
rejects(logged_in) == ~logged_in

handle_command(cmd) ==
    /\ IF rejects(is_logged_in)
       THEN handle_command_disconnected(cmd)
       ELSE handle_command_connected(cmd)
    /\ UNCHANGED trace

\* --------------------------------------------------------- the callers
\* the commands a caller can build (only CheckUserExists looks at the name)
Commands ==
    [kind : CommandKinds \ {"CheckUserExists"}, username : {""}]
    \cup [kind : {"CheckUserExists"}, username : {"x"}]

\* a caller creates a oneshot channel and sends a command carrying its Sender.
\* The worker reads the queue only in process_commands, which takes whatever
\* is queued, so a send is taken when the worker is about to look; a send
\* that the worker will not look at is one made before the top of the
\* iteration that finds the token cancelled.
SendCommand(kind, username) ==
    /\ UNCHANGED debVars
    /\ senders_alive
    /\ pc = "recv" \/ (pc = "top" /\ shutdown)
    /\ n_sent < MaxReq
    /\ n_sent' = n_sent + 1
    /\ rx' = Append(rx, [kind |-> kind, username |-> username, resp |-> n_sent + 1])
    /\ UNCHANGED <<pc, workerVars, senders_alive, shutdown, client, next_id, outVars>>

\* every Sender<TTWorkerCommand> is dropped (seen by the worker only as
\* RecvTimeoutError::Disconnected, once the queue is empty)
DropSenders ==
    /\ UNCHANGED debVars
    /\ senders_alive
    /\ pc = "recv"
    /\ rx = <<>>
    /\ senders_alive' = FALSE
    /\ UNCHANGED <<pc, workerVars, rx, n_sent, shutdown, client, next_id, outVars>>

\* shutdown.cancel() (the token is read only at the top of an iteration)
Cancel ==
    /\ UNCHANGED debVars
    /\ ~shutdown
    /\ pc = "top"
    /\ shutdown' = TRUE
    /\ UNCHANGED <<pc, workerVars, callerVars, client, next_id, outVars>>

\* a clock after TickMs more milliseconds
older(completed_at) ==
    IF completed_at = None THEN None
    ELSE IF completed_at[1] + TickMs >= LIST_GRACE THEN Some(LIST_GRACE)
    ELSE Some(completed_at[1] + TickMs)

\* time passes.  Instant::now() is read only by the event handlers and by the
\* sweep that follows them, and only to tell whether LIST_GRACE has elapsed
\* since a stamp: the passing of time is taken between polls.
Tick ==
    /\ UNCHANGED debVars
    /\ pc = "poll"
    /\ \E id \in DOMAIN pending_lists :
           older(pending_lists[id].completed_at) # pending_lists[id].completed_at
    /\ pending_lists' = [id \in DOMAIN pending_lists |->
           [pending_lists[id] EXCEPT !.completed_at = older(@)]]
    /\ trace' = [s \in Slots |-> [trace[s] EXCEPT !.late_clock = older(@)]]
    /\ UNCHANGED <<pc, is_logged_in, pending_cmds, reconnect, callerVars, shutdown,
                   client, next_id, n_replies, last, broadcast>>

\* ------------------------------------------------ run_tt_loop, top half
\* a slip: the queue outlives the loop
ReturnKeepsQueue ==
    /\ pc' = "exited"
    /\ pending_cmds' = EmptyMap
    /\ pending_lists' = EmptyMap
    /\ trace' = [s \in Slots |-> Blank]
    /\ UNCHANGED <<is_logged_in, reconnect, rx, n_sent, senders_alive>>

\* run_tt_loop returns: its locals pending_cmds and pending_lists and the
\* Receiver rx (with the commands still queued) are dropped
Return ==
    /\ pc' = "exited"
    /\ pending_cmds' = EmptyMap
    /\ pending_lists' = EmptyMap
    /\ rx' = <<>>
    /\ trace' = [s \in Slots |-> Blank]
    /\ UNCHANGED <<is_logged_in, reconnect, n_sent, senders_alive>>

LoopTop ==
    /\ UNCHANGED debVars
    /\ pc = "top"
    /\ IF shutdown
       THEN /\ Return
            /\ client' = "closed"
            /\ Step(NoSends, <<"disconnect">>)
       ELSE /\ pc' = "recv"
            /\ Control(<<>>)
            /\ UNCHANGED <<workerVars, callerVars, client>>
    /\ UNCHANGED <<shutdown, next_id>>

\* a slip: the newest command is taken first
ProcessCommandsRecvNewest ==
    /\ UNCHANGED debVars
    /\ pc = "recv"
    /\ rx # <<>>
    /\ handle_command(rx[Len(rx)])
    /\ rx' = SubSeq(rx, 1, Len(rx) - 1)
    /\ pc' = "drain"
    /\ UNCHANGED <<is_logged_in, reconnect, n_sent, senders_alive, shutdown, client>>

\* process_commands: rx.recv_timeout returned Ok(cmd)
ProcessCommandsRecv ==
    /\ UNCHANGED debVars
    /\ pc = "recv"
    /\ rx # <<>>
    /\ handle_command(Head(rx))
    /\ rx' = Tail(rx)
    /\ pc' = "drain"
    /\ UNCHANGED <<is_logged_in, reconnect, n_sent, senders_alive, shutdown, client>>

\* process_commands: rx.recv_timeout returned Err(Timeout)
ProcessCommandsTimeout ==
    /\ UNCHANGED debVars
    /\ pc = "recv"
    /\ rx = <<>>
    /\ senders_alive
    /\ pc' = "poll"
    /\ Control(<<>>)
    /\ UNCHANGED <<workerVars, callerVars, shutdown, client, next_id>>

\* process_commands: rx.recv_timeout returned Err(Disconnected)
ProcessCommandsDisconnected ==
    /\ UNCHANGED debVars
    /\ pc = "recv"
    /\ rx = <<>>
    /\ ~senders_alive
    /\ Return
    /\ Step(NoSends, <<>>)
    /\ UNCHANGED <<shutdown, client, next_id>>

\* process_commands: while let Ok(cmd) = rx.try_recv()
ProcessCommandsDrain ==
    /\ UNCHANGED debVars
    /\ pc = "drain"
    /\ rx # <<>>
    /\ handle_command(Head(rx))
    /\ rx' = Tail(rx)
    /\ pc' = "drain"
    /\ UNCHANGED <<is_logged_in, reconnect, n_sent, senders_alive, shutdown, client>>

\* a slip: the drain is left with commands still queued
ProcessCommandsDoneEarly ==
    /\ UNCHANGED debVars
    /\ pc = "drain"
    /\ pc' = "poll"
    /\ Control(<<>>)
    /\ UNCHANGED <<workerVars, callerVars, shutdown, client, next_id>>

\* process_commands: rx.try_recv() returned Err, the drain is over
ProcessCommandsDone ==
    /\ UNCHANGED debVars
    /\ pc = "drain"
    /\ rx = <<>>
    /\ pc' = "poll"
    /\ Control(<<>>)
    /\ UNCHANGED <<workerVars, callerVars, shutdown, client, next_id>>

\* ------------------------------------------------------- event handlers
\* a slip: a failed list-all request answered with what it holds
respond_kept(req, success) ==
    IF req.kind = "AllUsers"
    THEN ListVal(req.accumulated)
    ELSE BoolVal(success /\ Contains(req.accumulated, req.username))

\* a slip: the success flag left out of the existence test
respond_unguarded(req, success) ==
    IF req.kind = "AllUsers"
    THEN ListVal(IF success THEN req.accumulated ELSE <<>>)
    ELSE BoolVal(Contains(req.accumulated, req.username))

respond_list_request(req, success) ==
    IF req.kind = "AllUsers"
    THEN ListVal(IF success THEN req.accumulated ELSE <<>>)
    ELSE BoolVal(success /\ Contains(req.accumulated, req.username))

RECURSIVE DrainCmds(_, _, _)
\* for (_, cmd) in pending_cmds.drain() { cmd.resp.send(Err("Connection lost")) }
DrainCmds(sent, cmds, ids) ==
    IF ids = {} THEN sent
    ELSE LET id == CHOOSE x \in ids : TRUE
         IN DrainCmds(SendOn(sent, cmds[id].resp, Err("Connection lost")), cmds, ids \ {id})

RECURSIVE RespondLists(_, _, _, _)
\* respond_list_request(req, success) for every request of lists keyed in ids
RespondLists(sent, lists, ids, success) ==
    IF ids = {} THEN sent
    ELSE LET id == CHOOSE x \in ids : TRUE
         IN RespondLists(SendOn(sent, lists[id].resp,
                                respond_list_request(lists[id], success)),
                         lists, ids \ {id}, success)

\* a slip: one entry survives the drain
drained_but_one(map) ==
    IF DOMAIN map = {} THEN {} ELSE DOMAIN map \ {CHOOSE id \in DOMAIN map : TRUE}

\* the ids handle_connection_lost drains from a table
drained(map) == DOMAIN map

\* a slip: the worker takes itself for logged in as soon as it is connected
connect_success_logs_in ==
    /\ reconnect' = "connected"
    /\ client' = "login_sent"
    /\ is_logged_in' = TRUE
    /\ Step(NoSends, <<"login">>)
    /\ UNCHANGED <<pending_cmds, pending_lists, trace>>

handle_connect_success ==
    /\ reconnect' = "connected"
    /\ client' = "login_sent"
    /\ Step(NoSends, <<"login">>)
    /\ UNCHANGED <<is_logged_in, pending_cmds, pending_lists, trace>>

\* a slip: the commands in flight are handed to the client again
connection_lost_redispatches ==
    LET sent == RespondLists(DrainCmds(NoSends, pending_cmds, drained(pending_cmds)),
                             pending_lists, drained(pending_lists), FALSE)
    IN /\ is_logged_in' = FALSE
       /\ reconnect' = "disconnected"
       /\ pending_cmds' = EmptyMap
       /\ pending_lists' = EmptyMap
       /\ client' = "closed"
       /\ Step(sent, IF DOMAIN pending_cmds = {} THEN <<>>
                     ELSE <<"create_user_account">>)
       /\ trace' = Forget(trace, sent)

\* a slip: the list requests are left in their table when the connection is lost
connection_lost_keeps_lists ==
    LET sent == DrainCmds(NoSends, pending_cmds, drained(pending_cmds))
    IN /\ is_logged_in' = FALSE
       /\ reconnect' = "disconnected"
       /\ pending_cmds' = EmptyMap
       /\ client' = "closed"
       /\ Step(sent, <<>>)
       /\ UNCHANGED <<pending_lists, trace>>

handle_connection_lost ==
    LET sent == RespondLists(DrainCmds(NoSends, pending_cmds, drained(pending_cmds)),
                             pending_lists, drained(pending_lists), FALSE)
    IN /\ is_logged_in' = FALSE
       /\ reconnect' = "disconnected"
       /\ pending_cmds' = [id \in DOMAIN pending_cmds \ drained(pending_cmds) |->
                               pending_cmds[id]]
       /\ pending_lists' = [id \in DOMAIN pending_lists \ drained(pending_lists) |->
                                pending_lists[id]]
       /\ client' = "closed"
       /\ Step(sent, <<>>)
       /\ trace' = Forget(trace, sent)

handle_logged_in ==
    /\ is_logged_in' = TRUE
    /\ client' = "logged_in"
    /\ Step(NoSends, <<"set_status", "subscribe">>)
    /\ UNCHANGED <<reconnect, pending_cmds, pending_lists, trace>>

\* a slip: every terminal success stamps the request anew
stamp_again(lists, cmd_id) ==
    IF cmd_id \in DOMAIN lists
    THEN [lists EXCEPT ![cmd_id].completed_at = Some(0)]
    ELSE lists

\* handle_cmd_success on pending_lists: stamp completed_at once
stamp_completed(lists, cmd_id) ==
    IF cmd_id \in DOMAIN lists /\ lists[cmd_id].completed_at = None
    THEN [lists EXCEPT ![cmd_id].completed_at = Some(0)]
    ELSE lists

\* a slip: the entry looked up (get) instead of removed
success_keeps(cmds, cmd_id) == cmds

\* handle_cmd_success on pending_cmds: pending_cmds.remove(&cmd_id)
success_removes(cmds, cmd_id) == Remove(cmds, cmd_id)

\* the client sent the terminal success of a list request
Succeeded(cmd_id) ==
    [s \in Slots |->
        IF cmd_id \in DOMAIN pending_lists /\ pending_lists[cmd_id].resp = s
        THEN [trace[s] EXCEPT !.success = TRUE]
        ELSE trace[s]]

handle_cmd_success(cmd_id) ==
    LET sent == IF cmd_id \in DOMAIN pending_cmds
                THEN One(pending_cmds[cmd_id].resp, Ok(TRUE))
                ELSE NoSends
    IN /\ pending_cmds' = success_removes(pending_cmds, cmd_id)
       /\ pending_lists' = stamp_completed(pending_lists, cmd_id)
       /\ Step(sent, <<>>)
       /\ trace' = Forget(Succeeded(cmd_id), sent)
       /\ UNCHANGED <<is_logged_in, reconnect, client>>

\* a slip: the pending command removed and its caller not told
cmd_error_unanswered(cmd_id) ==
    LET sent == IF cmd_id \in DOMAIN pending_lists
                THEN One(pending_lists[cmd_id].resp,
                         respond_list_request(pending_lists[cmd_id], FALSE))
                ELSE NoSends
    IN /\ pending_cmds' = Remove(pending_cmds, cmd_id)
       /\ pending_lists' = Remove(pending_lists, cmd_id)
       /\ Step(sent, <<>>)
       /\ trace' = Forget(trace, sent)
       /\ UNCHANGED <<is_logged_in, reconnect, client>>

handle_cmd_error(cmd_id) ==
    LET s1 == IF cmd_id \in DOMAIN pending_cmds
              THEN One(pending_cmds[cmd_id].resp, Err("Command failed on server"))
              ELSE NoSends
        sent == IF cmd_id \in DOMAIN pending_lists
                THEN SendOn(s1, pending_lists[cmd_id].resp,
                            respond_list_request(pending_lists[cmd_id], FALSE))
                ELSE s1
    IN /\ pending_cmds' = Remove(pending_cmds, cmd_id)
       /\ pending_lists' = Remove(pending_lists, cmd_id)
       /\ Step(sent, <<>>)
       /\ trace' = Forget(trace, sent)
       /\ UNCHANGED <<is_logged_in, reconnect, client>>

\* a slip: the name put in front (insert(0, ..) for push)
push_front(req, name) ==
    [req EXCEPT !.accumulated = <<name>> \o @,
                !.completed_at = IF @ # None THEN Some(0) ELSE @]

\* a slip: the stamp left alone when a late account comes
push_no_bump(req, name) ==
    [req EXCEPT !.accumulated = Append(@, name)]

\* req.accumulated.push(acc.username); bump completed_at if it is set
push_account(req, name) ==
    [req EXCEPT !.accumulated = Append(@, name),
                !.completed_at = IF @ # None THEN Some(0) ELSE @]

\* a slip: the id of the event not looked at
user_account_any(lists, cmd_id, name) ==
    [id \in DOMAIN lists |-> push_account(lists[id], name)]

\* a slip: `!pending_lists.is_empty()` for `pending_lists.len() == 1`
user_account_some(lists, cmd_id, name) ==
    IF cmd_id \in DOMAIN lists
    THEN [lists EXCEPT ![cmd_id] = push_account(@, name)]
    ELSE IF Cardinality(DOMAIN lists) >= 1
         THEN LET pending_id == CHOOSE id \in DOMAIN lists : TRUE
              IN [lists EXCEPT ![pending_id] =
                      push_account([@ EXCEPT !.mismatch_logged = TRUE], name)]
         ELSE lists

\* handle_user_account on pending_lists, for an event carrying an account
user_account(lists, cmd_id, name) ==
    IF cmd_id \in DOMAIN lists
    THEN [lists EXCEPT ![cmd_id] = push_account(@, name)]
    ELSE IF Cardinality(DOMAIN lists) = 1
         THEN LET pending_id == CHOOSE id \in DOMAIN lists : TRUE
              IN [lists EXCEPT ![pending_id] =
                      push_account([@ EXCEPT !.mismatch_logged = TRUE], name)]
         ELSE lists

NoAccount == "<none>"     \* msg.account() returned None

RECURSIVE Held(_, _)
\* the number of names the list requests keyed in ids have accumulated
Held(lists, ids) ==
    IF ids = {} THEN 0
    ELSE LET id == CHOOSE x \in ids : TRUE
         IN Len(lists[id].accumulated) + Held(lists, ids \ {id})

\* The client sent a UserAccount event: an event carrying the id of a pending
\* list request is for that request; an event carrying an id that no list
\* request has is a stray, which only a request pending alone is sent.
Delivered(cmd_id, acc) ==
    [s \in Slots |->
        IF \E id \in DOMAIN pending_lists :
               /\ pending_lists[id].resp = s
               /\ \/ id = cmd_id
                  \/ cmd_id \notin DOMAIN pending_lists /\ DOMAIN pending_lists = {id}
        THEN [trace[s] EXCEPT
                 !.items = Append(@, [name |-> acc,
                                      stray |-> cmd_id \notin DOMAIN pending_lists]),
                 !.late_clock = IF trace[s].success THEN Some(0) ELSE @]
        ELSE trace[s]]

handle_user_account(cmd_id, acc) ==
    /\ IF acc = NoAccount
       THEN UNCHANGED <<pending_lists, trace>>
       ELSE /\ pending_lists' = user_account(pending_lists, cmd_id, acc)
            /\ trace' = Delivered(cmd_id, acc)
    /\ Step(NoSends, <<>>)
    /\ UNCHANGED <<is_logged_in, reconnect, client, pending_cmds>>

\* a slip: the grace interval not waited for
ready_unaged(lists) ==
    {id \in DOMAIN lists : lists[id].completed_at # None}

\* the ids flush_completed_lists collects in `ready`
ready_lists(lists) ==
    {id \in DOMAIN lists :
        /\ lists[id].completed_at # None
        /\ lists[id].completed_at[1] >= LIST_GRACE}

\* what flush_completed_lists sends: respond_list_request(req, true) for
\* every request it found ready
flush_sent(lists) == RespondLists(NoSends, lists, ready_lists(lists), TRUE)

\* flush_completed_lists on pending_lists: the ready requests are removed
flush_completed_lists(lists) ==
    [id \in DOMAIN lists \ ready_lists(lists) |-> lists[id]]

\* --------------------------------------------- run_tt_loop, bottom half
\* client.is_connected(): the connection is up, whatever became of the login
Connected == client \in {"login_sent", "login_rejected", "logged_in"}
Connecting == client = "connecting"                   \* client.is_connecting()

\* while let Some((event, msg)) = client.poll(0) { match event { ... } }
PollConnectSuccess ==
    /\ UNCHANGED debVars
    /\ pc = "poll"
    /\ Connecting
    /\ handle_connect_success
    /\ UNCHANGED <<pc, callerVars, shutdown, next_id>>

\* a slip: a failed connect ends the loop
PollConnectFailedFatal ==
    /\ UNCHANGED debVars
    /\ pc = "poll"
    /\ Connecting
    /\ Return
    /\ client' = "closed"
    /\ Step(NoSends, <<>>)
    /\ UNCHANGED <<shutdown, next_id>>

PollConnectFailed ==
    /\ UNCHANGED debVars
    /\ pc = "poll"
    /\ Connecting
    /\ handle_connection_lost
    /\ UNCHANGED <<pc, callerVars, shutdown, next_id>>

\* a slip: the loss of the connection cancels the timers that are running
PollConnectionLostAborts ==
    /\ pending_deletions' = EmptyMap
    /\ removal_tasks' = [t \in RemovalIds |->
                             IF removal_tasks[t].stage = "sleeping"
                             THEN [removal_tasks[t] EXCEPT !.stage = "aborted"]
                             ELSE removal_tasks[t]]
    /\ UNCHANGED <<creation_tasks, registry, fanout>>
    /\ pc = "poll"
    /\ Connected
    /\ handle_connection_lost
    /\ UNCHANGED <<pc, callerVars, shutdown, next_id>>

PollConnectionLost ==
    /\ UNCHANGED debVars
    /\ pc = "poll"
    /\ Connected
    /\ handle_connection_lost
    /\ UNCHANGED <<pc, callerVars, shutdown, next_id>>

PollMySelfLoggedIn ==
    /\ UNCHANGED debVars
    /\ pc = "poll"
    /\ client = "login_sent"
    /\ handle_logged_in
    /\ UNCHANGED <<pc, callerVars, shutdown, next_id>>

\* Event::CmdError for the login that handle_connect_success sent: its id is
\* in neither table (the id client.login returns is dropped), so
\* handle_cmd_error logs it and changes nothing; the connection stays up
PollLoginRejected ==
    /\ UNCHANGED debVars
    /\ pc = "poll"
    /\ client = "login_sent"
    /\ client' = "login_rejected"
    /\ Step(NoSends, <<>>)
    /\ UNCHANGED <<is_logged_in, reconnect, pending_cmds, pending_lists, trace>>
    /\ UNCHANGED <<pc, callerVars, shutdown, next_id>>

PollCmdSuccess ==
    /\ UNCHANGED debVars
    /\ pc = "poll"
    /\ Connected
    /\ \E cmd_id \in EventIds : handle_cmd_success(cmd_id)
    /\ UNCHANGED <<pc, callerVars, shutdown, next_id>>

PollCmdError ==
    /\ UNCHANGED debVars
    /\ pc = "poll"
    /\ Connected
    /\ \E cmd_id \in EventIds : handle_cmd_error(cmd_id)
    /\ UNCHANGED <<pc, callerVars, shutdown, next_id>>

PollUserAccount ==
    /\ UNCHANGED debVars
    /\ pc = "poll"
    /\ Connected
    /\ Held(pending_lists, DOMAIN pending_lists) < MaxItems
    /\ \E cmd_id \in EventIds, acc \in Usernames \cup {NoAccount} :
           handle_user_account(cmd_id, acc)
    /\ UNCHANGED <<pc, callerVars, shutdown, next_id>>

\* client.poll(0) returned None: the rest of the iteration, which is
\*     flush_completed_lists(&mut pending_lists);
\*     if !is_logged_in && !client.is_connected() && !client.is_connecting()
\*         { client.handle_reconnect(..) }
PollNone ==
    /\ UNCHANGED debVars
    /\ pc = "poll"
    /\ pending_lists' = flush_completed_lists(pending_lists)
    /\ trace' = Forget(trace, flush_sent(pending_lists))
    /\ IF ~is_logged_in /\ ~Connected /\ ~Connecting
       THEN /\ client' \in {"connecting", "closed"}
            /\ Step(flush_sent(pending_lists), <<"handle_reconnect">>)
       ELSE /\ UNCHANGED client
            /\ Step(flush_sent(pending_lists), <<>>)
    /\ pc' = "top"
    /\ UNCHANGED <<is_logged_in, pending_cmds, reconnect, callerVars, shutdown,
                   next_id>>

\* ------------------------------------------------ lifecycle debouncer
\* the tasks run on the tokio runtime (rt_handle), the handlers on the worker
\* thread: a handler is one step, and so is what a task does from one await
\* to the next

\* the next task handle_user_account_removed / _created spawns
Unspawned(tasks) == {t \in DOMAIN tasks : tasks[t].stage = "unspawned"}
NextTask(tasks) == CHOOSE t \in Unspawned(tasks) : \A o \in Unspawned(tasks) : t <= o

\* the removal tasks of u whose sleep is not over and that no creation
\* event has followed yet
InWindow(u) ==
    {t \in RemovalIds : /\ removal_tasks[t].u = u
                        /\ removal_tasks[t].stage = "sleeping"
                        /\ ~removal_tasks[t].elapsed
                        /\ ~removal_tasks[t].followed}

\* AbortHandle::abort: a task suspended at an await never resumes; a task
\* that has finished is not touched
abort(tasks, t) ==
    IF tasks[t].stage \in {"done", "aborted"} THEN tasks
    ELSE [tasks EXCEPT ![t].stage = "aborted"]

\* handle_user_account_removed: the task is spawned, asleep for 2 s, and its
\* abort handle is put in the map (an earlier handle of the name is replaced)
handle_user_account_removed(acc) ==
    IF acc = NoAccount
    THEN UNCHANGED debVars
    ELSE LET t == NextTask(removal_tasks) IN
         /\ removal_tasks' = [removal_tasks EXCEPT
                                  ![t] = [NoRemoval EXCEPT !.u = acc,
                                                           !.stage = "sleeping"]]
         /\ pending_deletions' = Insert(pending_deletions, acc, t)
         /\ UNCHANGED <<creation_tasks, registry>>

\* a slip: the handler does the work of its task itself, on the worker thread
created_delivers_inline(acc) ==
    IF ~is_logged_in \/ acc = NoAccount
    THEN UNCHANGED debVars
    ELSE LET j == NextTask(creation_tasks)
             is_update == acc \in DOMAIN pending_deletions
         IN /\ creation_tasks' =
                   [creation_tasks EXCEPT
                        ![j] = [NoCreation EXCEPT
                                    !.u = acc,
                                    !.stage = "done",
                                    !.msg_key = IF is_update THEN "tt-account-changed"
                                                ELSE "tt-account-created",
                                    !.pending_at_event = is_update]]
            /\ pending_deletions' = Remove(pending_deletions, acc)
            /\ removal_tasks' =
                   [t \in RemovalIds |->
                       IF t \in InWindow(acc)
                       THEN [removal_tasks[t] EXCEPT
                                 !.followed = TRUE,
                                 !.stage = IF is_update /\ pending_deletions[acc] = t
                                           THEN "aborted" ELSE @]
                       ELSE removal_tasks[t]]
            /\ UNCHANGED <<registry, fanout>>

\* a slip: the handler does not look at is_logged_in
created_unguarded(acc) ==
    IF acc = NoAccount
    THEN UNCHANGED <<pending_deletions, removal_tasks, creation_tasks, registry>>
    ELSE LET j == NextTask(creation_tasks) IN
         /\ Unspawned(creation_tasks) # {}
         /\ creation_tasks' = [creation_tasks EXCEPT
                                   ![j] = [NoCreation EXCEPT
                                               !.u = acc,
                                               !.stage = "spawned",
                                               !.pending_at_event =
                                                   acc \in DOMAIN pending_deletions]]
         /\ removal_tasks' =
               [t \in RemovalIds |->
                   IF t \in InWindow(acc)
                   THEN [removal_tasks[t] EXCEPT !.followed = TRUE]
                   ELSE removal_tasks[t]]
         /\ UNCHANGED <<pending_deletions, registry>>

\* handle_user_account_created
handle_user_account_created(acc) ==
    IF ~is_logged_in \/ acc = NoAccount
    THEN /\ removal_tasks' =
               [t \in RemovalIds |->
                   IF acc # NoAccount /\ t \in InWindow(acc)
                   THEN [removal_tasks[t] EXCEPT !.followed = TRUE]
                   ELSE removal_tasks[t]]
         /\ UNCHANGED <<pending_deletions, creation_tasks, registry>>
    ELSE LET j == NextTask(creation_tasks) IN
         /\ creation_tasks' = [creation_tasks EXCEPT
                                   ![j] = [NoCreation EXCEPT
                                               !.u = acc,
                                               !.stage = "spawned",
                                               !.pending_at_event =
                                                   acc \in DOMAIN pending_deletions]]
         /\ removal_tasks' =
               [t \in RemovalIds |->
                   IF t \in InWindow(acc)
                   THEN [removal_tasks[t] EXCEPT !.followed = TRUE]
                   ELSE removal_tasks[t]]
         /\ UNCHANGED <<pending_deletions, registry>>

\* the worker thread and everything but the debouncer stay as they are
WorkerIdle ==
    UNCHANGED <<pc, workerVars, callerVars, shutdown, client, next_id, outVars, fanout>>

\* the server tells of accounts only the client that is logged in
PollUserAccountRemoved ==
    /\ pc = "poll"
    /\ client = "logged_in"
    /\ Unspawned(removal_tasks) # {}
    /\ \E acc \in DebUsers \cup {NoAccount} : handle_user_account_removed(acc)
    /\ WorkerIdle

PollUserAccountCreated ==
    /\ pc = "poll"
    /\ client = "logged_in"
    /\ Unspawned(creation_tasks) # {}
    /\ \E acc \in DebUsers \cup {NoAccount} : handle_user_account_created(acc)
    /\ WorkerIdle

\* tokio::time::sleep(Duration::from_secs(2)): the 2 s are over
SleepElapses(t) ==
    /\ removal_tasks[t].stage = "sleeping"
    /\ ~removal_tasks[t].elapsed
    /\ removal_tasks' = [removal_tasks EXCEPT ![t].elapsed = TRUE]
    /\ UNCHANGED <<pending_deletions, creation_tasks, registry>>
    /\ WorkerIdle

\* a slip: the task leaves the entry of its name in the map
wake_keeps(map, u) == map

\* the first thing the removal task does: lock.remove(&u_name_cl)
wake_removes(map, u) == Remove(map, u)

\* the removal task resumes: lock.remove(&u_name_cl), then the first
\* send_message(..).await
RemovalWakes(t) ==
    /\ removal_tasks[t].stage = "sleeping"
    /\ removal_tasks[t].elapsed
    /\ pending_deletions' = wake_removes(pending_deletions, removal_tasks[t].u)
    /\ removal_tasks' = [removal_tasks EXCEPT ![t].stage = "notify_removed"]
    /\ UNCHANGED <<creation_tasks, registry>>
    /\ WorkerIdle

\* what get_registration_by_tt_username(u) may return
Lookups(u) == IF u \in registry THEN {"Some", "Err"} ELSE {"None", "Err"}

\* "tt-account-removed" sent to the admins; then
\* if let Ok(Some(reg)) = db_clone.get_registration_by_tt_username(..).await
RemovalNotified(t, found) ==
    /\ removal_tasks[t].stage = "notify_removed"
    /\ found \in Lookups(removal_tasks[t].u)
    /\ removal_tasks' = [removal_tasks EXCEPT
                             ![t].stage = IF found = "Some" THEN "ban"
                                          ELSE "notify_no_link",
                             ![t].emitted = Append(@, "tt-account-removed")]
    /\ UNCHANGED <<pending_deletions, creation_tasks, registry>>
    /\ WorkerIdle

\* let _ = db_clone.ban_user(..).await: the row is written, or the error dropped
RemovalBans(t, written) ==
    /\ removal_tasks[t].stage = "ban"
    /\ removal_tasks' = [removal_tasks EXCEPT
                             ![t].stage = "notify_banned",
                             ![t].emitted = IF written THEN Append(@, "ban") ELSE @]
    /\ UNCHANGED <<pending_deletions, creation_tasks, registry>>
    /\ WorkerIdle

\* "tt-account-removed-banned" or "tt-account-removed-no-link" sent
RemovalDone(t) ==
    /\ removal_tasks[t].stage \in {"notify_banned", "notify_no_link"}
    /\ removal_tasks' = [removal_tasks EXCEPT
                             ![t].stage = "done",
                             ![t].emitted =
                                 Append(@, IF removal_tasks[t].stage = "notify_banned"
                                           THEN "tt-account-removed-banned"
                                           ELSE "tt-account-removed-no-link")]
    /\ UNCHANGED <<pending_deletions, creation_tasks, registry>>
    /\ WorkerIdle

\* the creation task runs: lock.remove(&u_name), abort_handle.abort(),
\* msg_key, and the message is sent to the admins
CreationRuns(j) ==
    LET u == creation_tasks[j].u
        is_update == u \in DOMAIN pending_deletions
    IN /\ creation_tasks[j].stage = "spawned"
       /\ pending_deletions' = Remove(pending_deletions, u)
       /\ removal_tasks' = IF is_update
                           THEN abort(removal_tasks, pending_deletions[u])
                           ELSE removal_tasks
       /\ creation_tasks' = [creation_tasks EXCEPT
                                 ![j].stage = "done",
                                 ![j].msg_key = IF is_update THEN "tt-account-changed"
                                                ELSE "tt-account-created"]
       /\ UNCHANGED registry
       /\ WorkerIdle

\* The debouncer on its own: the worker logs in and handles the lifecycle
\* events, the tasks run.  The tasks do not look at the connection, and the
\* server sends no lifecycle event to a client that is not logged in, so the
\* loss of the connection is left to the specification of the worker.
DebounceInit ==
    /\ fanout = NoFanout
    /\ pc = "poll"
    /\ WorkerInit
    /\ DebouncerInit
    /\ registry \in SUBSET DebUsers

DebounceNext ==
    \/ PollConnectSuccess
    \/ PollConnectFailed
    \/ PollMySelfLoggedIn
    \/ PollUserAccountRemoved
    \/ PollUserAccountCreated
    \/ \E t \in RemovalIds : SleepElapses(t)
    \/ \E t \in RemovalIds : RemovalWakes(t)
    \/ \E t \in RemovalIds, found \in {"Some", "None", "Err"} : RemovalNotified(t, found)
    \/ \E t \in RemovalIds, written \in BOOLEAN : RemovalBans(t, written)
    \/ \E t \in RemovalIds : RemovalDone(t)
    \/ \E j \in CreationIds : CreationRuns(j)

DebounceSpec == DebounceInit /\ [][DebounceNext]_vars

\* ---- the debouncer with every delivery the worker cannot rule out
\* What client.poll returns is up to the client library: the worker tests its
\* own is_logged_in (worker.rs 645), so a lifecycle event is taken to come
\* whenever the connection is up, and the connection may be lost at any time.
PollUserAccountCreatedUnlogged ==
    /\ pc = "poll"
    /\ Connected
    /\ ~is_logged_in
    /\ \E acc \in DebUsers \cup {NoAccount} : handle_user_account_created(acc)
    /\ WorkerIdle

PollUserAccountRemovedUnlogged ==
    /\ pc = "poll"
    /\ Connected
    /\ ~is_logged_in
    /\ Unspawned(removal_tasks) # {}
    /\ \E acc \in DebUsers \cup {NoAccount} : handle_user_account_removed(acc)
    /\ WorkerIdle

LifecycleNext ==
    \/ DebounceNext
    \/ PollConnectionLost
    \/ PollUserAccountCreatedUnlogged
    \/ PollUserAccountRemovedUnlogged

LifecycleSpec == DebounceInit /\ [][LifecycleNext]_vars

\* ----------------------------------------------------------- fan-out
\* a slip: the loop is left at the first send that fails
next_unless_failed(fo, sent_ok) ==
    IF sent_ok THEN fo.next + 1 ELSE Len(fo.admins) + 1

\* `let _ = ...send_message(..).await`: the result is dropped and the loop
\* goes on to the next entry of admin_ids
next_recipient(fo, sent_ok) == fo.next + 1

\* one turn of the loop: send_message to the next admin returned Ok or Err
SendMessage(sent_ok) ==
    /\ fanout.next <= Len(fanout.admins)
    /\ fanout' = [fanout EXCEPT
                      !.attempts = Append(@, [to |-> fanout.admins[fanout.next],
                                              ok |-> sent_ok]),
                      !.next = next_recipient(fanout, sent_ok)]
    /\ UNCHANGED <<pc, workerVars, callerVars, shutdown, client, next_id, outVars,
                   pending_deletions, removal_tasks, creation_tasks, registry>>

\* a task has a notification to send: any of the five texts, any admin_ids
FanOutInit ==
    /\ pc = "poll"
    /\ WorkerInit
    /\ DebouncerInit
    /\ registry = {}
    /\ fanout \in [msg_key : MsgKeys, admins : AdminLists, next : {1},
                    attempts : {<<>>}]

FanOutNext == \E sent_ok \in BOOLEAN : SendMessage(sent_ok)

FanOutSpec == FanOutInit /\ [][FanOutNext]_vars

Next ==
    \/ \E c \in Commands : SendCommand(c.kind, c.username)
    \/ DropSenders
    \/ Cancel
    \/ Tick
    \/ LoopTop
    \/ ProcessCommandsRecv
    \/ ProcessCommandsTimeout
    \/ ProcessCommandsDisconnected
    \/ ProcessCommandsDrain
    \/ ProcessCommandsDone
    \/ PollConnectSuccess
    \/ PollConnectFailed
    \/ PollConnectionLost
    \/ PollMySelfLoggedIn
    \/ PollLoginRejected
    \/ PollCmdSuccess
    \/ PollCmdError
    \/ PollUserAccount
    \/ PollNone

Spec == Init /\ [][Next]_vars

\* the worker loop runs on its own thread: each of its steps is taken when it
\* stays possible, and time does not stop while a stamp is ageing.  What the
\* client and the callers do is not forced.
FairSpec ==
    /\ Spec
    /\ SF_vars(Tick)
    /\ WF_vars(LoopTop)
    /\ WF_vars(ProcessCommandsRecv)
    /\ WF_vars(ProcessCommandsTimeout)
    /\ WF_vars(ProcessCommandsDisconnected)
    /\ WF_vars(ProcessCommandsDrain)
    /\ WF_vars(ProcessCommandsDone)
    /\ WF_vars(PollNone)

\* ================================================================ claims
\* the reply slots held by the two tables
CmdSlots == {pending_cmds[id].resp : id \in DOMAIN pending_cmds}
ListSlots == {pending_lists[id].resp : id \in DOMAIN pending_lists}

\* the step is a handle_command call, on Head(rx)
TakesCommand == pc \in {"recv", "drain"} /\ pc' = "drain"

\* the step handles a ConnectFailed or ConnectionLost event
ConnectionCloses == pc = "poll" /\ client # "closed" /\ client' = "closed"

\* the step is the completion sweep
Sweeps == pc = "poll" /\ pc' = "top"

\* the client operations that dispatch a command to the server
DispatchCalls == {"create_user_account", "delete_user_account", "list_user_accounts"}

\* the value by which a failure reaches a caller of the given command kind
IsFailure(kind, v) ==
    CASE kind \in {"CreateAccount", "DeleteUser"} -> v.variant = "Err"
      [] kind = "CheckUserExists" -> v = BoolVal(FALSE)
      [] kind \in {"GetAllUsers", "GetOnlineUsers"} -> v = ListVal(<<>>)

\* the value by which a failure reaches the caller of a list request
ListFailure(req) == IF req.kind = "AllUsers" THEN ListVal(<<>>) ELSE BoolVal(FALSE)

\* the slots a step sent something on
SentSlots(l) == {s \in Slots : l.sent[s] # <<>>}

\* the names of a sequence of recorded events
RECURSIVE Names(_)
Names(items) ==
    IF items = <<>> THEN <<>> ELSE <<Head(items).name>> \o Names(Tail(items))

\* the recorded events that carried the request's own id
RECURSIVE Own(_)
Own(items) ==
    IF items = <<>> THEN <<>>
    ELSE IF Head(items).stray THEN Own(Tail(items))
    ELSE <<Head(items)>> \o Own(Tail(items))

\* C1: no reply slot is ever sent more than one value, and a slot that has
\* been sent its value is no longer held by pending_cmds or pending_lists
\* (the entry left its table in the step that resolved it).
C1_ResolvedOnce ==
    \A s \in Slots :
        /\ n_replies[s] <= 1
        /\ s \in CmdSlots \cup ListSlots => n_replies[s] = 0

\* C1 witness: a terminal success has just resolved a pending command
C1_Witness ==
    \E s \in Slots : /\ last.sent[s] = <<Ok(TRUE)>>
                     /\ n_replies[s] = 1
                     /\ s \notin CmdSlots

\* C2: every entry of pending_cmds or pending_lists is eventually removed and
\* its caller answered, as long as run_tt_loop has not returned.
C2_EventuallyAnswered ==
    \A s \in Slots :
        (s \in CmdSlots \cup ListSlots) ~> (n_replies[s] = 1 \/ pc = "exited")

\* C3: a dispatching handler to which the client returned a non-positive id
\* (the client issued no id) sends the failure on the command's slot in the
\* same handle_command call, sends nothing else and leaves both tables as
\* they were.
C3_DispatchFailure ==
    [][(/\ TakesCommand
        /\ last'.calls # <<>>
        /\ Head(last'.calls) \in DispatchCalls
        /\ next_id' = next_id) =>
          /\ Head(rx).kind \in {"CreateAccount", "DeleteUser", "GetAllUsers",
                                "CheckUserExists"}
          /\ \E v \in {Err("Client error dispatching command"),
                       Err("Failed to dispatch command"),
                       ListVal(<<>>), BoolVal(FALSE)} :
                 /\ IsFailure(Head(rx).kind, v)
                 /\ last'.sent = One(Head(rx).resp, v)
          /\ Len(last'.calls) = 1
          /\ n_replies'[Head(rx).resp] = 1
          /\ pending_cmds' = pending_cmds
          /\ pending_lists' = pending_lists]_vars

\* C3 witness: a list dispatch has just failed while a command is pending
C3_Witness ==
    /\ pc = "drain"
    /\ last.calls = <<"list_user_accounts">>
    /\ \E s \in Slots : last.sent = One(s, ListVal(<<>>))
    /\ DOMAIN pending_cmds # {}

\* C4: a connection-lost or connect-failed event sends the failure on the
\* slot of every entry of pending_cmds and pending_lists, on no other slot,
\* and leaves both tables empty.
C4_ConnectionLostDrains ==
    [][ConnectionCloses =>
          /\ \A id \in DOMAIN pending_cmds :
                 last'.sent[pending_cmds[id].resp] = <<Err("Connection lost")>>
          /\ \A id \in DOMAIN pending_lists :
                 last'.sent[pending_lists[id].resp] = <<ListFailure(pending_lists[id])>>
          /\ SentSlots(last') = CmdSlots \cup ListSlots
          /\ Cardinality(SentSlots(last')) =
                 Cardinality(DOMAIN pending_cmds) + Cardinality(DOMAIN pending_lists)
          /\ pending_cmds' = EmptyMap
          /\ pending_lists' = EmptyMap]_vars

\* C4 witness: the connection was lost with a command and a list request
\* pending (K = 1, M = 1)
C4_Witness ==
    /\ client = "closed"
    /\ \E s, t \in Slots :
           /\ last.sent[s] = <<Err("Connection lost")>>
           /\ last.sent[t] # <<>>
           /\ last.sent[t][1].variant \in {"List", "Bool"}
    /\ pending_cmds = EmptyMap
    /\ pending_lists = EmptyMap

\* C5: a command is handed to the client only while the worker is logged in;
\* otherwise handle_command sends the failure on its slot, invokes no client
\* operation and leaves both tables as they were.
C5_OnlyWhileLoggedIn ==
    [][(TakesCommand /\ ~is_logged_in) =>
          /\ last'.calls = <<>>
          /\ \E v \in {Err("Bot not connected to TeamTalk"),
                       ListVal(<<>>), BoolVal(FALSE)} :
                 /\ IsFailure(Head(rx).kind, v)
                 /\ last'.sent = One(Head(rx).resp, v)
          /\ n_replies'[Head(rx).resp] = 1
          /\ next_id' = next_id
          /\ pending_cmds' = pending_cmds
          /\ pending_lists' = pending_lists]_vars

\* C5 witness: a command was rejected while the client was connected but
\* the login had not completed
C5_Witness ==
    /\ pc = "drain"
    /\ client = "login_sent"
    /\ last.calls = <<>>
    /\ \E s \in Slots : last.sent = One(s, Err("Bot not connected to TeamTalk"))

\* the list requests a step removes from pending_lists
Removed == DOMAIN pending_lists \ DOMAIN pending_lists'

\* the step handles a UserAccount event carrying cmd_id and the account acc
ItemEvent(cmd_id, acc) ==
    pc = "poll" /\ pc' = "poll" /\ handle_user_account(cmd_id, acc)

\* the step handles a CmdSuccess event carrying cmd_id
SuccessEvent(cmd_id) ==
    pc = "poll" /\ pc' = "poll" /\ handle_cmd_success(cmd_id)

\* C6 as stated: a GetAllUsers request whose accounts all came before its
\* terminal success is answered, by the sweep, with exactly the accounts
\* of the events that carried its id, in the order received.
C6_OwnItemsOnly ==
    [][Sweeps =>
          \A id \in Removed :
              LET req == pending_lists[id] IN
              (req.kind = "AllUsers" /\ trace[req.resp].late_clock = None) =>
                  last'.sent[req.resp] =
                      <<ListVal(Names(Own(trace[req.resp].items)))>>]_vars

\* C6 amended: a GetAllUsers request finalized by the sweep is answered with
\* exactly the accounts of the events attributed to it, in the order
\* received: the events that carried its id and the events carrying an id of
\* no pending list request that came while it was the only list request
\* pending.  With no such event the answer is the empty list, not an error.
C6_Aggregation ==
    [][Sweeps =>
          \A id \in Removed :
              LET req == pending_lists[id] IN
              req.kind = "AllUsers" =>
                  /\ trace[req.resp].success
                  /\ last'.sent[req.resp] = <<ListVal(Names(trace[req.resp].items))>>
                  /\ n_replies'[req.resp] = 1]_vars

\* C6 witness: the sweep has just answered a request with [x, y]
C6_Witness ==
    /\ pc = "top"
    /\ \E s \in Slots : last.sent = One(s, ListVal(<<"x", "y">>))

\* C7: a list request leaves pending_lists with its accumulated result only
\* in the sweep, and then its terminal success has come and its stamp is at
\* least LIST_GRACE old; any other removal sends the failure value.  The
\* CmdSuccess event of a list request stamps it and neither removes it nor
\* sends on its slot.
C7_OnlySweepFinalizes ==
    [][/\ \A id \in Removed :
              LET req == pending_lists[id] IN
              pc' # "exited" =>
                  IF Sweeps
                  THEN /\ trace[req.resp].success
                       /\ req.completed_at # None
                       /\ req.completed_at[1] >= LIST_GRACE
                       /\ last'.sent[req.resp] = <<respond_list_request(req, TRUE)>>
                  ELSE last'.sent[req.resp] = <<ListFailure(req)>>
       /\ \A id \in DOMAIN pending_lists :
              SuccessEvent(id) =>
                  /\ id \in DOMAIN pending_lists'
                  /\ pending_lists'[id].completed_at # None
                  /\ pending_lists'[id].accumulated = pending_lists[id].accumulated
                  /\ last'.sent[pending_lists[id].resp] = <<>>]_vars

\* C7 witness: the sweep has just answered one request with its result and
\* left another, which has no terminal success yet, pending
C7_Witness ==
    /\ pc = "top"
    /\ \E s \in Slots : last.sent = One(s, ListVal(<<"x">>))
    /\ \E id \in DOMAIN pending_lists : pending_lists[id].completed_at = None

\* C8: an account that comes for a stamped list request is appended and the
\* stamp is taken anew, so the request is finalized only when LIST_GRACE has
\* passed since its last account, and the answer covers every account.
C8_LateItemBumps ==
    [][/\ \A id \in DOMAIN pending_lists, acc \in Usernames :
              (ItemEvent(id, acc) /\ pending_lists[id].completed_at # None) =>
                  /\ pending_lists'[id].accumulated =
                         Append(pending_lists[id].accumulated, acc)
                  /\ pending_lists'[id].completed_at = Some(0)
       /\ Sweeps =>
              \A id \in Removed :
                  LET req == pending_lists[id]
                      tr == trace[req.resp] IN
                  /\ tr.late_clock # None => tr.late_clock[1] >= LIST_GRACE
                  /\ req.accumulated = Names(tr.items)
                  /\ last'.sent[req.resp] =
                         <<IF req.kind = "AllUsers"
                           THEN ListVal(Names(tr.items))
                           ELSE BoolVal(Contains(Names(tr.items), req.username))>>]_vars

\* C8 witness: a request whose last account came after its terminal
\* success, LIST_GRACE ago, is about to be finalized
C8_Witness ==
    /\ pc = "poll"
    /\ \E id \in DOMAIN pending_lists :
           /\ trace[pending_lists[id].resp].late_clock = Some(LIST_GRACE)
           /\ pending_lists[id].completed_at = Some(LIST_GRACE)
           /\ pending_lists[id].accumulated # <<>>

\* C9: with list requests X and Y pending, an account carrying the id X is
\* appended to X and leaves Y as it was; the accounts a request holds are
\* those of the events the client sent to it.
C9_NoCrossContamination ==
    [][/\ (pc = "poll" /\ pc' = "poll" /\ pending_lists' # pending_lists) =>
              \A X \in DOMAIN pending_lists, Y \in DOMAIN pending_lists, acc \in Usernames :
                  (X # Y /\ ItemEvent(X, acc)) =>
                      /\ pending_lists'[X].accumulated =
                             Append(pending_lists[X].accumulated, acc)
                      /\ pending_lists'[Y] = pending_lists[Y]
       /\ pending_lists' # pending_lists =>
              \A id \in DOMAIN pending_lists' :
                  pending_lists'[id].accumulated =
                      Names(trace'[pending_lists'[id].resp].items)]_vars

\* C9 witness: two list requests pending, each holding its own account
C9_Witness ==
    \E X \in DOMAIN pending_lists, Y \in DOMAIN pending_lists :
        /\ X # Y
        /\ pending_lists[X].accumulated = <<"x">>
        /\ pending_lists[Y].accumulated = <<"y">>
        /\ \A e \in {trace[pending_lists[X].resp].items[1],
                     trace[pending_lists[Y].resp].items[1]} : ~e.stray

\* C10: an account carrying an id that no pending list request has is
\* appended to the list request pending alone (its stamp taken anew if it is
\* stamped); with none or several pending, pending_lists stays as it is.
C10_SinglePending ==
    [][\A cmd_id \in EventIds \ DOMAIN pending_lists, acc \in Usernames :
           ItemEvent(cmd_id, acc) =>
               IF Cardinality(DOMAIN pending_lists) = 1
               THEN \E id \in DOMAIN pending_lists :
                        /\ DOMAIN pending_lists' = {id}
                        /\ pending_lists'[id].accumulated =
                               Append(pending_lists[id].accumulated, acc)
                        /\ pending_lists'[id].completed_at =
                               IF pending_lists[id].completed_at # None
                               THEN Some(0) ELSE None
                        /\ pending_lists'[id].resp = pending_lists[id].resp
                        /\ pending_lists'[id].kind = pending_lists[id].kind
               ELSE pending_lists' = pending_lists]_vars

\* C10 witness: the list request pending alone has just taken an account of
\* an unknown id, after its terminal success
C10_Witness ==
    /\ pc = "poll"
    /\ \E id \in DOMAIN pending_lists :
           LET tr == trace[pending_lists[id].resp] IN
           /\ DOMAIN pending_lists = {id}
           /\ pending_lists[id].mismatch_logged
           /\ pending_lists[id].completed_at = Some(0)
           /\ tr.late_clock = Some(0)
           /\ tr.items # <<>>
           /\ tr.items[Len(tr.items)].stray

\* ------------------------------------------- claims on the debouncer
\* what a removal task of u emits when it runs to its end
Finalization(u) ==
    IF u \in registry
    THEN <<"tt-account-removed", "ban", "tt-account-removed-banned">>
    ELSE <<"tt-account-removed", "tt-account-removed-no-link">>

\* the sequences a removal task may have emitted
Finalizations ==
    {<<"tt-account-removed", "ban", "tt-account-removed-banned">>,
     <<"tt-account-removed", "tt-account-removed-banned">>,
     <<"tt-account-removed", "tt-account-removed-no-link">>}

IsPrefix(a, b) == Len(a) <= Len(b) /\ \A i \in 1..Len(a) : a[i] = b[i]

\* C11: a removal task whose username got a UserAccountCreated event while
\* its 2 s were not over emits nothing (no notification, no ban).
C11_DebounceSuppresses ==
    \A t \in RemovalIds :
        removal_tasks[t].followed => removal_tasks[t].emitted = <<>>

\* C12: a removal task whose username got no UserAccountCreated event while
\* its 2 s were not over ends having emitted "tt-account-removed" and then
\* the ban and "tt-account-removed-banned" if the registry links the
\* username, "tt-account-removed-no-link" if it does not.
C12_ExactlyOneFinalization ==
    \A t \in RemovalIds :
        (removal_tasks[t].stage \in {"done", "aborted"} /\ ~removal_tasks[t].followed) =>
            removal_tasks[t].emitted = Finalization(removal_tasks[t].u)

\* C13: at most one removal task per username is asleep (scheduled, neither
\* fired nor cancelled).
C13_OneTaskPerUser ==
    \A u \in DebUsers :
        Cardinality({t \in RemovalIds : /\ removal_tasks[t].u = u
                                        /\ removal_tasks[t].stage = "sleeping"}) <= 1

Accumulations == UNION {[1..n -> Usernames] : n \in 0..MaxItems}

\* the values a caller gets when its command succeeded
SuccessValues(kind, username) ==
    CASE kind \in {"CreateAccount", "DeleteUser"} -> {Ok(TRUE)}
      [] kind = "GetOnlineUsers" -> {ListVal(OnlineUsers)}
      [] kind = "GetAllUsers" ->
            {respond_list_request([NewListRequest("AllUsers", "", 1)
                                       EXCEPT !.accumulated = l], TRUE) :
                 l \in Accumulations}
      [] kind = "CheckUserExists" ->
            {respond_list_request([NewListRequest("Exists", username, 1)
                                       EXCEPT !.accumulated = l], TRUE) :
                 l \in Accumulations}

\* the command kind of a pending list request
KindOf(req) == IF req.kind = "AllUsers" THEN "GetAllUsers" ELSE "CheckUserExists"

\* the step handles a CmdError event
CmdErrorEvent == pc = "poll" /\ pc' = "poll" /\ \E id \in EventIds : handle_cmd_error(id)

\* C15: every value a failure sends on a reply slot (the worker not logged
\* in, a dispatch the client refused, a CmdError event, a lost connection)
\* is none of the values a success of that command can send.
C15_TypedFailures ==
    [][/\ (TakesCommand /\ ~(Head(rx).kind = "GetOnlineUsers" /\ is_logged_in)) =>
              \A i \in 1..Len(last'.sent[Head(rx).resp]) :
                  last'.sent[Head(rx).resp][i] \notin
                      SuccessValues(Head(rx).kind, Head(rx).username)
       /\ (ConnectionCloses \/ CmdErrorEvent) =>
              /\ \A id \in DOMAIN pending_cmds :
                     \A i \in 1..Len(last'.sent[pending_cmds[id].resp]) :
                         last'.sent[pending_cmds[id].resp][i] \notin
                             SuccessValues("CreateAccount", "")
              /\ \A id \in DOMAIN pending_lists :
                     \A i \in 1..Len(last'.sent[pending_lists[id].resp]) :
                         last'.sent[pending_lists[id].resp][i] \notin
                             SuccessValues(KindOf(pending_lists[id]),
                                           pending_lists[id].username)]_vars

\* the name the request asks for is one of the names it holds
Present(req) == \E i \in 1..Len(req.accumulated) : req.accumulated[i] = req.username

\* C16: a check-existence request is answered true exactly when the sweep
\* finalizes it and its username is among the names accumulated by then;
\* a CmdError event or a lost connection answers it false whatever it holds,
\* and so does a command that was never dispatched.
C16_ExistsIffPresent ==
    [][/\ \A id \in DOMAIN pending_lists :
              LET req == pending_lists[id] IN
              (req.kind = "Exists" /\ n_replies'[req.resp] # n_replies[req.resp]) =>
                  /\ Len(last'.sent[req.resp]) = 1
                  /\ last'.sent[req.resp][1].variant = "Bool"
                  /\ last'.sent[req.resp][1].flag = (Sweeps /\ Present(req))
                  /\ (ConnectionCloses \/ CmdErrorEvent) =>
                         last'.sent[req.resp][1].flag = FALSE
       /\ \A sl \in Slots \ ListSlots :
              n_replies'[sl] # n_replies[sl] =>
              \A i \in 1..Len(last'.sent[sl]) :
                  last'.sent[sl][i].variant = "Bool" => last'.sent[sl][i].flag = FALSE]_vars

\* C16 witness: the sweep has just answered a check-existence request true
C16_Witness ==
    /\ pc = "top"
    /\ \E sl \in Slots : last.sent = One(sl, BoolVal(TRUE))

\* C17: a CmdError event that carries the id of a pending list request
\* answers it in that step with the empty list (AllUsers) or false (Exists)
\* and removes it, whatever it has accumulated and whether or not it is
\* stamped; the other list requests stay as they are.
C17_ListErrorImmediate ==
    [][\A id \in DOMAIN pending_lists :
           (pc = "poll" /\ pc' = "poll" /\ handle_cmd_error(id)) =>
               LET req == pending_lists[id] IN
               /\ last'.sent = One(req.resp, IF req.kind = "AllUsers"
                                             THEN ListVal(<<>>)
                                             ELSE BoolVal(FALSE))
               /\ n_replies'[req.resp] = 1
               /\ DOMAIN pending_lists' = DOMAIN pending_lists \ {id}
               /\ \A other \in DOMAIN pending_lists' :
                      pending_lists'[other] = pending_lists[other]]_vars

\* C17 witness: a CmdError event has just answered a list request with the
\* failure while the connection stays up and another request holds names
C17_Witness ==
    /\ pc = "poll"
    /\ Connected
    /\ \E sl \in Slots : last.sent \in {One(sl, ListVal(<<>>)), One(sl, BoolVal(FALSE))}
    /\ last.calls = <<>>
    /\ n_replies # [sl \in Slots |-> 0]
    /\ \E id \in DOMAIN pending_lists : pending_lists[id].accumulated # <<>>

\* C18: a CmdSuccess event with the id of a pending command sends Ok(true)
\* on its slot and removes it; a CmdError event with that id sends
\* Err("Command failed on server") on its slot and removes it; the other
\* pending commands stay.
C18_TerminalEventResolves ==
    [][\A id \in DOMAIN pending_cmds :
           /\ (pc = "poll" /\ pc' = "poll" /\ handle_cmd_success(id)) =>
                  /\ last'.sent[pending_cmds[id].resp] = <<Ok(TRUE)>>
                  /\ pending_cmds' = Remove(pending_cmds, id)
           /\ (pc = "poll" /\ pc' = "poll" /\ handle_cmd_error(id)) =>
                  /\ last'.sent[pending_cmds[id].resp] =
                         <<Err("Command failed on server")>>
                  /\ pending_cmds' = Remove(pending_cmds, id)]_vars

\* C18 witness: a CmdError event has just resolved one of two pending
\* commands
C18_Witness ==
    /\ pc = "poll"
    /\ \E sl \in Slots : last.sent = One(sl, Err("Command failed on server"))
    /\ DOMAIN pending_cmds # {}

\* the worker has lost the connection or the login and has not regained it
Failed == client \in {"closed", "login_rejected"}

\* the last step of the worker asked the client to connect or to log in
Retries == \E i \in 1..Len(last.calls) :
               last.calls[i] \in {"connect", "handle_reconnect", "login"}

\* C19: after a ConnectFailed or ConnectionLost event, or a rejected login,
\* the worker comes to ask the client to connect or to log in again, unless
\* run_tt_loop returns.
C19_FailuresRetried ==
    (Failed /\ pc # "exited") ~> (Retries \/ pc = "exited")

\* C20: run_tt_loop returns only from the top of an iteration with the
\* shutdown token cancelled, or from process_commands when the queue is
\* empty and every sender is gone; no event of the client and no command
\* makes it return.
C20_ExitsOnlyOnShutdownOrDisconnect ==
    [][(pc # "exited" /\ pc' = "exited") =>
          /\ \/ pc = "top" /\ shutdown
             \/ pc = "recv" /\ rx = <<>> /\ ~senders_alive
          /\ pc # "poll"
          /\ ~TakesCommand]_vars

\* C20 witness: the loop has returned because the queue was disconnected,
\* after it had handled commands and with the token never cancelled
C20_Witness ==
    /\ pc = "exited"
    /\ ~shutdown
    /\ ~senders_alive
    /\ n_sent > 0

\* the reply slots whose Sender exists: in the tables and in the queue
QueueSlots == {rx[i].resp : i \in 1..Len(rx)}
HeldSlots == CmdSlots \cup ListSlots \cup QueueSlots

\* C21: when run_tt_loop returns, the Sender of every reply slot held by
\* pending_cmds, by pending_lists or by a command still in the queue is
\* dropped without a value being sent on it, so that the caller's await
\* ends with an error; no Sender is left once the loop has returned.
C21_ExitDropsSlots ==
    [][pc' = "exited" =>
          /\ HeldSlots' = {}
          /\ pc # "exited" => n_replies' = n_replies]_vars

\* C21 witness: the loop has returned with a caller never answered
C21_Witness ==
    /\ pc = "exited"
    /\ HeldSlots = {}
    /\ \E sl \in Slots : sl <= n_sent /\ n_replies[sl] = 0

\* the dispatch calls among the client operations of a step
Dispatches(calls) == {i \in 1..Len(calls) : calls[i] \in DispatchCalls}

\* C22: a handle_command call hands its command to the client at most once
\* and takes it off the queue; no other step of the worker dispatches
\* anything (the client issues no id, no dispatch call is made), in
\* particular not the steps that lose and regain the connection; and a
\* command enters the queue only when a caller sends it, under a new slot.
C22_NoRedispatch ==
    [][/\ TakesCommand =>
              /\ Cardinality(Dispatches(last'.calls)) <= 1
              /\ next_id' \in {next_id, next_id + 1}
              /\ rx' = Tail(rx)
       /\ ~TakesCommand =>
              /\ next_id' = next_id
              /\ last' = last \/ Dispatches(last'.calls) = {}
              /\ \/ rx' = rx
                 \/ pc' = "exited" /\ rx' = <<>>
                 \/ /\ n_sent' = n_sent + 1
                    /\ rx' = Append(rx, rx'[Len(rx')])
                    /\ rx'[Len(rx')].resp = n_sent'
                    /\ n_replies[n_sent'] = 0]_vars

\* C22 witness: the worker is logged in again, after a connection in which
\* a command was dispatched, and the new login has dispatched nothing
C22_Witness ==
    /\ client = "logged_in"
    /\ last.calls = <<"set_status", "subscribe">>
    /\ next_id > 1
    /\ pending_cmds = EmptyMap
    /\ pending_lists = EmptyMap
    /\ \E sl \in Slots : n_replies[sl] = 1

\* the slot of the entry that pending_cmds or pending_lists keeps under id
SlotOf(id) == IF id \in DOMAIN pending_cmds THEN pending_cmds[id].resp
              ELSE pending_lists[id].resp

\* C23: slots are numbered in the order of the sends and ids in the order of
\* the dispatches.  The queue holds the commands in the order of the sends,
\* the commands in flight were dispatched in that order, and all of them
\* were sent before every command that still waits.
C23_DispatchFifo ==
    /\ \A i, j \in 1..Len(rx) : i < j => rx[i].resp < rx[j].resp
    /\ \A id1, id2 \in DOMAIN pending_cmds \cup DOMAIN pending_lists :
           id1 < id2 => SlotOf(id1) < SlotOf(id2)
    /\ \A sl \in CmdSlots \cup ListSlots : \A i \in 1..Len(rx) : sl < rx[i].resp

\* C23 witness: two commands taken in one drain are in flight
C23_Witness ==
    /\ pc = "drain"
    /\ \E id1, id2 \in DOMAIN pending_cmds \cup DOMAIN pending_lists :
           id1 < id2 /\ SlotOf(id1) < SlotOf(id2)

\* C24: a UserAccountCreated event handled while pending_deletions has no
\* entry for its username is told to the admins as "tt-account-created".
C24_PlainCreation ==
    \A j \in CreationIds :
        (creation_tasks[j].stage = "done" /\ ~creation_tasks[j].pending_at_event) =>
            creation_tasks[j].msg_key = "tt-account-created"

\* C25: the loop that sends a notification goes through admin_ids entry by
\* entry, whatever the sends return: the sends attempted so far are those to
\* the first entries, in order, and the loop is over only when every entry
\* has had its send.
C25_FanOutReachesAll ==
    /\ fanout.next <= Len(fanout.admins) + 1
    /\ Len(fanout.attempts) = fanout.next - 1
    /\ \A i \in 1..Len(fanout.attempts) : fanout.attempts[i].to = fanout.admins[i]

\* C25 witness: the loop is over, the send to the first admin failed and the
\* send to the last succeeded
C25_Witness ==
    /\ Len(fanout.admins) >= 2
    /\ fanout.next = Len(fanout.admins) + 1
    /\ ~fanout.attempts[1].ok
    /\ fanout.attempts[Len(fanout.admins)].ok

\* the step is handle_user_account_created or handle_user_account_removed
\* spawning a task
Spawns ==
    \/ Unspawned(removal_tasks') # Unspawned(removal_tasks)
    \/ Unspawned(creation_tasks') # Unspawned(creation_tasks)

\* C26: handling a UserAccountCreated or UserAccountRemoved event only
\* spawns a task, and for a removal puts its handle in pending_deletions:
\* the step sends no notification, reads no registration and writes no ban,
\* aborts nothing, leaves the tasks that exist where they are and the worker
\* at its poll loop, whatever the tasks are doing.
C26_HandlersOnlySpawn ==
    [][Spawns =>
          /\ pc = "poll" /\ pc' = "poll"
          /\ \A t \in RemovalIds :
                 IF removal_tasks[t].stage = "unspawned"
                 THEN /\ removal_tasks'[t].stage \in {"unspawned", "sleeping"}
                      /\ removal_tasks'[t].emitted = <<>>
                      /\ removal_tasks'[t].stage = "sleeping" =>
                             pending_deletions' =
                                 Insert(pending_deletions, removal_tasks'[t].u, t)
                 ELSE /\ removal_tasks'[t].stage = removal_tasks[t].stage
                      /\ removal_tasks'[t].emitted = removal_tasks[t].emitted
          /\ \A j \in CreationIds :
                 IF creation_tasks[j].stage = "unspawned"
                 THEN /\ creation_tasks'[j].stage \in {"unspawned", "spawned"}
                      /\ creation_tasks'[j].msg_key = ""
                      /\ creation_tasks'[j].stage = "spawned" =>
                             pending_deletions' = pending_deletions
                 ELSE creation_tasks'[j] = creation_tasks[j]]_vars

\* C26 witness: the worker has handled a removal while the task of an
\* earlier creation event of the same name has not yet run
C26_Witness ==
    \E j \in CreationIds, t \in RemovalIds :
        /\ creation_tasks[j].stage = "spawned"
        /\ ~creation_tasks[j].pending_at_event
        /\ creation_tasks[j].u \in DOMAIN pending_deletions
        /\ pending_deletions[creation_tasks[j].u] = t
        /\ removal_tasks[t].stage = "sleeping"
        /\ \E o \in RemovalIds : removal_tasks[o].stage \in {"notify_removed", "ban"}

\* the connection state of the worker, from is_logged_in and what the client
\* answers to is_connected() and is_connecting()
ConnState(logged_in, cl) ==
    IF logged_in THEN "LoggedIn"
    ELSE IF cl \in {"login_sent", "login_rejected", "logged_in"} THEN "Connected"
    ELSE IF cl = "connecting" THEN "Connecting"
    ELSE "Disconnected"

\* C27: while run_tt_loop runs, the connection state changes only from
\* Disconnected to Connecting (handle_reconnect), from Connecting to
\* Connected (ConnectSuccess, which sends the login), from Connected to
\* LoggedIn (MySelfLoggedIn, the login sent and not rejected), and from any
\* state to Disconnected, by a ConnectFailed or ConnectionLost event.
C27_ConnectionStateMachine ==
    [][LET old == ConnState(is_logged_in, client)
           new == ConnState(is_logged_in', client')
       IN (pc' # "exited" /\ new # old) =>
              /\ pc = "poll"
              /\ CASE new = "Connecting" ->
                          /\ old = "Disconnected"
                          /\ last'.calls = <<"handle_reconnect">>
                   [] new = "Connected" ->
                          /\ old = "Connecting"
                          /\ last'.calls = <<"login">>
                          /\ reconnect' = "connected"
                   [] new = "LoggedIn" ->
                          /\ old = "Connected"
                          /\ client = "login_sent"
                          /\ last'.calls = <<"set_status", "subscribe">>
                   [] new = "Disconnected" ->
                          /\ ConnectionCloses
                          /\ reconnect' = "disconnected"
                          /\ ~is_logged_in']_vars

\* C27 witness: the worker is back in Disconnected, by a lost connection,
\* after it had been logged in and had dispatched a command
C27_Witness ==
    /\ pc = "poll"
    /\ ConnState(is_logged_in, client) = "Disconnected"
    /\ reconnect = "disconnected"
    /\ next_id > 1
    /\ last.calls = <<>>
    /\ \E sl \in Slots : last.sent[sl] # <<>>

\* the order of the phases of one iteration of run_tt_loop
PhaseOrder ==
    {<<"top", "recv">>, <<"top", "exited">>,
     <<"recv", "drain">>, <<"recv", "poll">>, <<"recv", "exited">>,
     <<"drain", "poll">>, <<"poll", "top">>}

\* C28: an iteration goes from its top to process_commands, which handles
\* every queued command, then to the poll loop, which handles the events,
\* then in one step to the sweep and the reconnect check, and back to the
\* top.  Commands are handled only before the poll loop is entered and not
\* while it runs, events only in the poll loop; the sweep and the reconnect
\* check are the step that leaves it.
C28_PhaseOrder ==
    [][/\ pc' # pc => <<pc, pc'>> \in PhaseOrder
       /\ (pc = "drain" /\ pc' = "poll") => rx = <<>>
       /\ (rx' # rx /\ Len(rx') <= Len(rx) /\ pc' # "exited") => TakesCommand
       /\ (pending_cmds' # pending_cmds \/ pending_lists' # pending_lists) =>
              \/ TakesCommand
              \/ pc = "poll"
              \/ pc' = "exited"
       /\ (pc = "poll" /\ pc' = "poll") => rx' = rx
       /\ Sweeps =>
              /\ pending_lists' = flush_completed_lists(pending_lists)
              /\ last'.sent = flush_sent(pending_lists)
              /\ pending_cmds' = pending_cmds]_vars

\* C28 witness: the sweep has answered a list request at the end of an
\* iteration, with a command of the same connection still in flight
C28_Witness ==
    /\ pc = "top"
    /\ \E sl \in Slots : last.sent[sl] # <<>> /\ last.sent[sl][1].variant \in {"List", "Bool"}
    /\ DOMAIN pending_cmds # {}

\* the step called client.handle_reconnect
Reconnects == \E i \in 1..Len(last'.calls) : last'.calls[i] = "handle_reconnect"

\* C29: the step that ends an iteration calls handle_reconnect exactly when
\* the worker is not logged in and the client is not connecting; no other
\* step calls it.
C29_ReconnectIff ==
    [][/\ Sweeps => (Reconnects <=> (~is_logged_in /\ ~Connecting))
       /\ (~Sweeps /\ last' # last) => ~Reconnects]_vars

\* the removal tasks of u that are scheduled and have not begun finalizing
Scheduled(u) == {t \in RemovalIds : removal_tasks[t].u = u /\
                                    removal_tasks[t].stage = "sleeping"}

\* C30: pending_deletions has an entry for a username exactly when a removal
\* task of that username is scheduled and has not begun finalizing, and the
\* entry is the handle of such a task.
C30_MapMatchesTasks ==
    \A u \in DebUsers :
        /\ u \in DOMAIN pending_deletions <=> Scheduled(u) # {}
        /\ u \in DOMAIN pending_deletions => pending_deletions[u] \in Scheduled(u)

\* what a removal task has emitted holds x
Emitted(t, x) == Contains(removal_tasks[t].emitted, x)

\* C31: a removal task emits "removed and banned" only after the ban row of
\* the linked registrant was written, and "removed, no linked registration"
\* only for a username the registry links to nobody: a ban write that failed
\* and a lookup that failed are told as neither.
C31_NotifiedAsRecorded ==
    \A t \in RemovalIds :
        /\ Emitted(t, "tt-account-removed-banned") => Emitted(t, "ban")
        /\ Emitted(t, "tt-account-removed-no-link") =>
               removal_tasks[t].u \notin registry

\* the creation task j does its work in this step
Runs(j) ==
    /\ creation_tasks[j].stage = "spawned"
    /\ creation_tasks'[j].stage = "done"

\* C32: the task of a creation event that was handled before the removal
\* event of its username cancels nothing of that removal: when
\* pending_deletions did not hold the name as the creation event was handled,
\* every handle the name gets afterwards is of a later removal, and the step
\* of the creation task leaves every removal task as it is.
C32_EarlierCreationKeepsTimer ==
    [][\A j \in CreationIds :
          (Runs(j) /\ ~creation_tasks[j].pending_at_event) =>
              \A t \in RemovalIds :
                  removal_tasks'[t].stage = removal_tasks[t].stage]_vars

\* C33: while the worker is not logged in, pending_cmds and pending_lists
\* are both empty.
C33_TablesEmptyUnlessLoggedIn ==
    ~is_logged_in => (pending_cmds = EmptyMap /\ pending_lists = EmptyMap)

\* C33 witness: the worker was logged in with a command in flight, the
\* connection was lost, and the worker is not logged in, its tables empty
C33_Witness ==
    /\ ~is_logged_in
    /\ reconnect = "disconnected"
    /\ \E s \in Slots : last.sent[s] = <<Err("Connection lost")>>
    /\ pending_cmds = EmptyMap
    /\ pending_lists = EmptyMap

\* the step handles a CmdSuccess or a CmdError event carrying cmd_id
TerminalEvent(cmd_id) ==
    /\ pc = "poll"
    /\ pc' = "poll"
    /\ handle_cmd_success(cmd_id) \/ handle_cmd_error(cmd_id)

\* every entry of map but the one keyed cmd_id is in after as it was, and
\* after holds no new key
OthersKept(map, after, cmd_id) ==
    /\ \A id \in DOMAIN map : id = cmd_id \/ (id \in DOMAIN after /\ after[id] = map[id])
    /\ \A id \in DOMAIN after : id \in DOMAIN map

\* the step sent on slot s, and no entry keyed cmd_id held s
SentElsewhere(s, cmd_id) ==
    /\ last'.sent[s] # <<>>
    /\ cmd_id \in DOMAIN pending_cmds => pending_cmds[cmd_id].resp # s
    /\ cmd_id \in DOMAIN pending_lists => pending_lists[cmd_id].resp # s

\* C34: a CmdSuccess or CmdError event with id X leaves every entry of
\* pending_cmds and pending_lists keyed otherwise as it was (slot, items,
\* stamp) and sends on the slots of X's entries only; with X in neither
\* table it sends nothing and changes neither table; a list request that is
\* stamped already and is pending after the event (it was a CmdSuccess: a
\* CmdError removes the request) is as it was, stamp included.
C34_TerminalEventFrame ==
    [][\A X \in EventIds :
          TerminalEvent(X) =>
              /\ OthersKept(pending_cmds, pending_cmds', X)
              /\ OthersKept(pending_lists, pending_lists', X)
              /\ \A s \in Slots : ~SentElsewhere(s, X)
              /\ (X \notin DOMAIN pending_cmds /\ X \notin DOMAIN pending_lists) =>
                     /\ last'.sent = NoSends
                     /\ n_replies' = n_replies
                     /\ pending_cmds' = pending_cmds
                     /\ pending_lists' = pending_lists
              /\ ( /\ X \in DOMAIN pending_lists
                   /\ X \in DOMAIN pending_lists'
                   /\ pending_lists[X].completed_at # None ) =>
                     pending_lists'[X] = pending_lists[X]]_vars

\* C34 witness: a CmdError event has just ended a list request while a
\* command with another id is pending, and the command is pending still
C34_Witness ==
    /\ pc = "poll"
    /\ is_logged_in
    /\ \E sl \in Slots : /\ last.sent[sl] # <<>>
                         /\ last.sent[sl][1].variant \in {"List", "Bool"}
                         /\ SentSlots(last) = {sl}
    /\ DOMAIN pending_cmds # {}

\* the removal task t is suspended in its sleep
Sleeping(t) == removal_tasks[t].stage = "sleeping"

\* C35: a ConnectFailed or ConnectionLost event leaves pending_deletions and
\* every task as they were (and with them the command queue, the token and
\* the registry), and a removal task that is in its sleep can go on whatever
\* the state of the connection: a timer started before the loss still fires.
C35_LossKeepsTimers ==
    /\ [][ConnectionCloses =>
             /\ pending_deletions' = pending_deletions
             /\ removal_tasks' = removal_tasks
             /\ creation_tasks' = creation_tasks
             /\ UNCHANGED <<registry, fanout, rx, shutdown, next_id>>]_vars
    /\ [](\A t \in RemovalIds :
              Sleeping(t) => ENABLED (SleepElapses(t) \/ RemovalWakes(t)))

\* C35 witness: the connection has been lost while a timer was running (a
\* removal is handled only while the connection is up); the worker is not
\* logged in, the handle is in the map still, and the 2 s are over
C35_Witness ==
    /\ client = "closed"
    /\ ~is_logged_in
    /\ reconnect = "disconnected"
    /\ \E t \in RemovalIds : /\ Sleeping(t)
                              /\ removal_tasks[t].elapsed
                              /\ removal_tasks[t].u \in DOMAIN pending_deletions
                              /\ pending_deletions[removal_tasks[t].u] = t

\* the step handles a UserAccountCreated event for acc with is_logged_in false
CreatedUnlogged(acc) ==
    /\ pc = "poll"
    /\ ~is_logged_in
    /\ handle_user_account_created(acc)
    /\ WorkerIdle

\* the step handles a UserAccountRemoved event for acc with is_logged_in false
RemovedUnlogged(acc) ==
    /\ pc = "poll"
    /\ ~is_logged_in
    /\ Unspawned(removal_tasks) # {}
    /\ handle_user_account_removed(acc)
    /\ WorkerIdle

\* C36: a UserAccountCreated event handled while the worker is not logged in
\* spawns no task (so nothing is told to the admins), leaves
\* pending_deletions as it was and aborts no removal task; a
\* UserAccountRemoved event handled then starts a timer all the same: a new
\* task asleep, its handle in the map under the username.
C36_CreationIgnoredUnlogged ==
    [][\A acc \in DebUsers :
          /\ CreatedUnlogged(acc) =>
                 /\ creation_tasks' = creation_tasks
                 /\ pending_deletions' = pending_deletions
                 /\ fanout' = fanout
                 /\ \A t \in RemovalIds :
                        /\ removal_tasks'[t].stage = removal_tasks[t].stage
                        /\ removal_tasks'[t].emitted = removal_tasks[t].emitted
                        /\ removal_tasks'[t].elapsed = removal_tasks[t].elapsed
          /\ RemovedUnlogged(acc) =>
                 /\ acc \in DOMAIN pending_deletions'
                 /\ removal_tasks[pending_deletions'[acc]].stage = "unspawned"
                 /\ removal_tasks'[pending_deletions'[acc]].stage = "sleeping"
                 /\ removal_tasks'[pending_deletions'[acc]].u = acc
                 /\ ~removal_tasks'[pending_deletions'[acc]].elapsed]_vars

\* C36 witness: not yet logged in, a removal has started a timer and a
\* creation event of the same username has come in its 2 s; the timer runs,
\* its handle is in the map, and no creation task exists
C36_Witness ==
    /\ ~is_logged_in
    /\ client = "login_sent"
    /\ \A j \in CreationIds : creation_tasks[j].stage = "unspawned"
    /\ \E t \in RemovalIds : /\ Sleeping(t)
                              /\ removal_tasks[t].followed
                              /\ removal_tasks[t].u \in DOMAIN pending_deletions
                              /\ pending_deletions[removal_tasks[t].u] = t

\* C37: the registration of a CreateAccount command is announced to the
\* server's users only if the server confirms the creation: a command for
\* which send_to_all was invoked is never answered with an error.
C37_BroadcastOnlyConfirmed ==
    [][\A id \in broadcast \cap DOMAIN pending_cmds :
          n_replies'[pending_cmds[id].resp] # n_replies[pending_cmds[id].resp] =>
              last'.sent[pending_cmds[id].resp] = <<Ok(TRUE)>>]_vars
====
